---- MODULE Spec2Model ----
(***************************************************************************)
(* A model of giskard.ml_worker.core.dataset.Dataset: the save / load /     *)
(* cast / slice pipeline of python-client/giskard/ml_worker/core/dataset.py *)
(*                                                                         *)
(* Text is a sequence of one-character strings, so that formatting a       *)
(* number and parsing it back, or writing the missing-value token and      *)
(* recognising it, are computed and not assumed.                           *)
(***************************************************************************)
EXTENDS Integers, Sequences, FiniteSets, TLC

\* ------------------------------------------------------------------ bounds

\* Rows of a table handed to the codec (save_df / read_csv / astype).
MaxRows == 2
\* Rows of a table handed to the save / load / slice state machine.
MaxSysRows == 1
\* Identifiers uuid4 hands out in one behaviour.
MaxSaves == 2

\* -------------------------------------------------------------------- text

Digits == <<"0", "1", "2", "3", "4", "5", "6", "7", "8", "9">>

IsDigit(c) == \E i \in 1..10 : Digits[i] = c

DigitVal(c) == (CHOOSE i \in 1..10 : Digits[i] = c) - 1

\* str(n) for a natural number n.
RECURSIVE IntToText(_)
IntToText(n) ==
    IF n < 10 THEN <<Digits[n + 1]>>
    ELSE IntToText(n \div 10) \o <<Digits[(n % 10) + 1]>>

IsIntText(t) == Len(t) > 0 /\ \A i \in 1..Len(t) : IsDigit(t[i])

\* int(t) for a text of digits.
RECURSIVE TextToInt(_)
TextToInt(t) ==
    IF Len(t) = 0 THEN 0
    ELSE 10 * TextToInt(SubSeq(t, 1, Len(t) - 1)) + DigitVal(t[Len(t)])

\* A float is held in tenths (25.0 is 250, 2.5 is 25); repr(x) is the integer
\* part, a dot and the tenth.
FloatToText(tenths) ==
    IntToText(tenths \div 10) \o <<".">> \o <<Digits[(tenths % 10) + 1]>>

DotAt(t) == {i \in 1..Len(t) : t[i] = "."}

IsFloatText(t) ==
    /\ Cardinality(DotAt(t)) = 1
    /\ Len(t) > 1
    /\ \A i \in 1..Len(t) : IsDigit(t[i]) \/ t[i] = "."

\* float(t), in tenths, of a text with one dot (digits past the first
\* fractional one are below the model's resolution).
TextToFloat(t) ==
    LET p == CHOOSE i \in DotAt(t) : TRUE
        whole == TextToInt(SubSeq(t, 1, p - 1))
        frac == IF p < Len(t) THEN DigitVal(t[p + 1]) ELSE 0
    IN  10 * whole + frac

\* ------------------------------------------------------------------- cells

\* A cell of a table: k is its kind, n its number (an int64 value, or a
\* float64 value in tenths), s its text (a str value).
IntCell(n) == [k |-> "int", n |-> n, s |-> <<>>]
FloatCell(tenths) == [k |-> "float", n |-> tenths, s |-> <<>>]
StrCell(t) == [k |-> "str", n |-> 0, s |-> t]
\* NaN / None / pd.NA: what pandas.isna reports as missing.
NA == [k |-> "na", n |-> 0, s |-> <<>>]

IsNa(c) == c.k = "na"

\* A column is [name, dtype, cells]; a table (DataFrame) is a sequence of
\* columns of one length.
Col(name, dtype, cells) == [name |-> name, dtype |-> dtype, cells |-> cells]

NRows(df) == IF Len(df) = 0 THEN 0 ELSE Len(df[1].cells)

ColNames(df) == [i \in 1..Len(df) |-> df[i].name]

\* -------------------------------------------------- save_df and read_csv

\* na_rep of save_df and na_values of read_csv.
GSK_NA == <<"_", "G", "S", "K", "_", "N", "A", "_">>

\* What pandas reads as missing by default (keep_default_na=True); the model
\* keeps the three that its texts can spell.
DefaultNaTexts == {<<>>, <<"N", "A">>, <<"n", "a", "n">>}

\* DataFrame.to_csv(index=False, na_rep="_GSK_NA_") on one cell.
CellToCsv(c) ==
    CASE c.k = "na" -> GSK_NA
      [] c.k = "int" -> IntToText(c.n)
      [] c.k = "float" -> FloatToText(c.n)
      [] OTHER -> c.s

\* giskard.client.io_utils.save_df: the header and, per column, the fields.
save_df(df) ==
    [i \in 1..Len(df) |->
        [name |-> df[i].name,
         fields |-> [j \in 1..Len(df[i].cells) |-> CellToCsv(df[i].cells[j])]]]

\* len(uncompressed_bytes): the fields, and a separator or line end after
\* each field of the header and of the rows.
RECURSIVE SumLen(_)
SumLen(ts) == IF Len(ts) = 0 THEN 0 ELSE Len(Head(ts)) + 1 + SumLen(Tail(ts))

RECURSIVE CsvLen(_)
CsvLen(csv) ==
    IF Len(csv) = 0 THEN 0
    ELSE 1 + Len(Head(csv).name) + SumLen(Head(csv).fields) + CsvLen(Tail(csv))

\* The first bytes of a zstandard frame.
ZstdMagic == <<"28", "B5", "2F", "FD">>

\* giskard.client.io_utils.compress
compress(bytes) == [magic |-> ZstdMagic, payload |-> bytes]

CompressedLen(z) == Len(z.magic) + CsvLen(z.payload)

\* ZstdDecompressor().stream_reader(ds_stream)
ZstdDecompress(z) == z.payload

\* read_csv with keep_default_na left at its default.
IsNaFieldDefault(t) == t = GSK_NA \/ t \in DefaultNaTexts

\* read_csv's test of one field: keep_default_na=False, na_values=["_GSK_NA_"].
IsNaField(t) == t = GSK_NA

\* read_csv's type inference on one column: int64 when every field is an
\* integer, float64 when every field is a number or missing, object otherwise.
ReadColumn(name, fields) ==
    LET n == Len(fields)
        allInt == \A j \in 1..n : ~IsNaField(fields[j]) /\ IsIntText(fields[j])
        allNum == \A j \in 1..n :
                     IsNaField(fields[j]) \/ IsIntText(fields[j]) \/ IsFloatText(fields[j])
    IN  IF n > 0 /\ allInt
        THEN Col(name, "int64", [j \in 1..n |-> IntCell(TextToInt(fields[j]))])
        ELSE IF n > 0 /\ allNum
        THEN Col(name, "float64",
                 [j \in 1..n |->
                    IF IsNaField(fields[j]) THEN NA
                    ELSE IF IsIntText(fields[j])
                         THEN FloatCell(10 * TextToInt(fields[j]))
                         ELSE FloatCell(TextToFloat(fields[j]))])
        ELSE Col(name, "object",
                 [j \in 1..n |->
                    IF IsNaField(fields[j]) THEN NA ELSE StrCell(fields[j])])

\* Dataset._read_dataset_from_local_dir
_read_dataset_from_local_dir(z) ==
    LET csv == ZstdDecompress(z)
    IN  [i \in 1..Len(csv) |-> ReadColumn(csv[i].name, csv[i].fields)]

\* ---------------------------------------------------------------- metadata

\* An optional string (name, target) and an optional dict (feature_types,
\* column_types); a dict is its items in insertion order, as Python keeps it.
None == [some |-> FALSE, s |-> ""]
Some(s) == [some |-> TRUE, s |-> s]
NoDict == [some |-> FALSE, items |-> <<>>]
Dict(items) == [some |-> TRUE, items |-> items]

Keys(items) == {items[i][1] : i \in 1..Len(items)}

Get(items, key) == items[CHOOSE i \in 1..Len(items) : items[i][1] = key][2]

ItemSet(items) == {items[i] : i \in 1..Len(items)}

\* Python's == on two optional dicts: the same items, in any order.
DictEq(a, b) == a.some = b.some /\ ItemSet(a.items) = ItemSet(b.items)

\* DatasetMeta(name, target, feature_types, column_types)
DatasetMeta(name, target, feature_types, column_types) ==
    [name |-> name, target |-> target,
     feature_types |-> feature_types, column_types |-> column_types]

\* Dataset.__init__
Dataset(df, name, target, feature_types, column_types) ==
    [df |-> df, name |-> name, target |-> target,
     feature_types |-> feature_types, column_types |-> column_types]

\* A projection that takes the target from the wrong field.
meta_wrong_target(self) ==
    DatasetMeta(self.name, self.name, self.feature_types, self.column_types)

\* Dataset.meta
meta(self) ==
    DatasetMeta(self.name, self.target, self.feature_types, self.column_types)

\* cls(df=df, **meta.__dict__)
DatasetFromMeta(df, m) ==
    Dataset(df, m.name, m.target, m.feature_types, m.column_types)

\* The four fields of two Datasets or DatasetMetas, equal as structured data.
MetaEq(a, b) ==
    /\ a.name = b.name
    /\ a.target = b.target
    /\ DictEq(a.feature_types, b.feature_types)
    /\ DictEq(a.column_types, b.column_types)

\* -------------------------------------------------------------------- yaml

\* The keys the model's documents use, in the order yaml.dump sorts them.
SortedKeys == <<"age", "city", "column_types", "feature_types", "name", "target">>

KeyRank(key) == CHOOSE i \in 1..Len(SortedKeys) : SortedKeys[i] = key

RECURSIVE InsertItem(_, _)
InsertItem(item, sorted) ==
    IF Len(sorted) = 0 THEN <<item>>
    ELSE IF KeyRank(item[1]) <= KeyRank(Head(sorted)[1])
         THEN <<item>> \o sorted
         ELSE <<Head(sorted)>> \o InsertItem(item, Tail(sorted))

RECURSIVE SortItems(_)
SortItems(items) ==
    IF Len(items) = 0 THEN <<>>
    ELSE InsertItem(Head(items), SortItems(Tail(items)))

\* Plain scalars the YAML resolver does not read as a string.
YamlNotStr == {"", "null", "~", "Null", "NULL", "true", "false"}

\* A dump that never quotes a string.
YamlScalarPlain(opt) ==
    IF ~opt.some THEN [style |-> "plain", text |-> "null", items |-> <<>>]
    ELSE [style |-> "plain", text |-> opt.s, items |-> <<>>]

\* A node of the document: a plain or quoted scalar, a flow mapping {} or a
\* block mapping.
YamlScalar(opt) ==
    IF ~opt.some THEN [style |-> "plain", text |-> "null", items |-> <<>>]
    ELSE IF opt.s \in YamlNotStr
         THEN [style |-> "quoted", text |-> opt.s, items |-> <<>>]
         ELSE [style |-> "plain", text |-> opt.s, items |-> <<>>]

YamlMapping(opt) ==
    IF ~opt.some THEN [style |-> "plain", text |-> "null", items |-> <<>>]
    ELSE IF Len(opt.items) = 0
         THEN [style |-> "flow", text |-> "{}", items |-> <<>>]
         ELSE [style |-> "block", text |-> "", items |-> SortItems(opt.items)]

\* yaml.dump(self.meta.__dict__, meta_f, default_flow_style=False)
yaml_dump(m) ==
    SortItems(<<
        <<"name", YamlScalar(m.name)>>,
        <<"target", YamlScalar(m.target)>>,
        <<"feature_types", YamlMapping(m.feature_types)>>,
        <<"column_types", YamlMapping(m.column_types)>> >>)

\* yaml.load of one node, read where a string or None is expected.
YamlToStr(node) ==
    IF node.style = "plain" /\ node.text \in {"null", "~", "Null", "NULL", ""}
    THEN None
    ELSE Some(node.text)

\* yaml.load of one node, read where a dict or None is expected.
YamlToDict(node) ==
    IF node.style = "plain" THEN NoDict ELSE Dict(node.items)

\* DatasetMeta(**yaml.load(f, Loader=yaml.Loader))
yaml_load(doc) ==
    DatasetMeta(YamlToStr(Get(doc, "name")),
                YamlToStr(Get(doc, "target")),
                YamlToDict(Get(doc, "feature_types")),
                YamlToDict(Get(doc, "column_types")))

\* ------------------------------------------------------------------ astype

\* One value converted to a dtype: the value, or the error numpy raises.
Converted(c) == [ok |-> TRUE, cell |-> c, err |-> ""]
NotConverted(c, err) == [ok |-> FALSE, cell |-> c, err |-> err]

AsTypeCell(c, dtype) ==
    CASE dtype = "int64" ->
            (CASE c.k = "int" -> Converted(c)
               [] c.k = "float" -> Converted(IntCell(c.n \div 10))
               [] c.k = "na" -> NotConverted(c, "IntCastingNaNError")
               [] OTHER -> IF IsIntText(c.s)
                           THEN Converted(IntCell(TextToInt(c.s)))
                           ELSE NotConverted(c, "ValueError"))
      [] dtype = "float64" ->
            (CASE c.k = "int" -> Converted(FloatCell(10 * c.n))
               [] c.k \in {"float", "na"} -> Converted(c)
               [] OTHER -> IF IsIntText(c.s)
                           THEN Converted(FloatCell(10 * TextToInt(c.s)))
                           ELSE IF IsFloatText(c.s)
                           THEN Converted(FloatCell(TextToFloat(c.s)))
                           ELSE NotConverted(c, "ValueError"))
      [] dtype = "object" -> Converted(c)
      [] OTHER -> NotConverted(c, "TypeError")

\* The first of the conversions res that failed.
FirstBad(res) ==
    CHOOSE j \in 1..Len(res) : ~res[j].ok /\ \A k \in 1..(j - 1) : res[k].ok

AllOk(res) == \A j \in 1..Len(res) : res[j].ok

\* The column made of the converted values res, or the first error.
ColumnOf(col, dtype, res) ==
    IF AllOk(res)
    THEN [ok |-> TRUE,
          col |-> Col(col.name, dtype, [j \in 1..Len(res) |-> res[j].cell]),
          err |-> ""]
    ELSE [ok |-> FALSE, col |-> col, err |-> res[FirstBad(res)].err]

\* Series.astype(dtype): every value converts, or the first error is raised.
AsTypeColumn(col, dtype) ==
    ColumnOf(col, dtype,
             [j \in 1..Len(col.cells) |-> AsTypeCell(col.cells[j], dtype)])

\* The frame made of the converted columns res, or the first error and no
\* frame.
FrameOf(res) ==
    IF AllOk(res)
    THEN [ok |-> TRUE, df |-> [i \in 1..Len(res) |-> res[i].col], err |-> ""]
    ELSE [ok |-> FALSE, df |-> <<>>, err |-> res[FirstBad(res)].err]

\* astype with errors="ignore": a column that does not convert is left as it
\* was.
astype_ignore(df, types) ==
    [ok |-> TRUE,
     df |-> [i \in 1..Len(df) |->
                IF df[i].name \in Keys(types)
                THEN AsTypeColumn(df[i], Get(types, df[i].name)).col
                ELSE df[i]],
     err |-> ""]

\* DataFrame.astype(column_types): a key that names no column is a KeyError;
\* every named column converts, or the first error is raised and no frame is
\* returned.
astype(df, types) ==
    IF ~(Keys(types) \subseteq {df[i].name : i \in 1..Len(df)})
    THEN [ok |-> FALSE, df |-> <<>>, err |-> "KeyError"]
    ELSE FrameOf([i \in 1..Len(df) |->
                    IF df[i].name \in Keys(types)
                    THEN AsTypeColumn(df[i], Get(types, df[i].name))
                    ELSE [ok |-> TRUE, col |-> df[i], err |-> ""]])

\* try: ... except Exception as e: raise ValueError(...) from e
Reraise(r) ==
    IF r.ok
    THEN [ok |-> TRUE, df |-> r.df, error |-> "", cause |-> ""]
    ELSE [ok |-> FALSE, df |-> <<>>, error |-> "ValueError", cause |-> r.err]

\* Dataset.cast_column_to_types: the table, or ValueError("Failed to apply
\* column types to dataset") raised from the astype error (cause).
cast_column_to_types(df, column_types) ==
    IF column_types.some /\ Len(column_types.items) > 0
    THEN Reraise(astype(df, column_types.items))
    ELSE [ok |-> TRUE, df |-> df, error |-> "", cause |-> ""]

\* ------------------------------------------------------------------- state

VARIABLES
    heap,      \* <<self>> or <<self, d>>: the Dataset the calls are made on and
               \* the Dataset the last call returned, when it made a new one
    nextId,    \* how many identifiers uuid4 has handed out
    tmpDirs,   \* the staging directories on disk, named by their save's id
    store,     \* the artifact store: what log_artifacts has uploaded
    registry,  \* the metadata registry: what save_dataset_meta has recorded
    cache,     \* the directories under <home_dir>/<cache_dir>
    fetched,   \* what each successful remote-mode load returned
    last       \* the last call: what it was given, did and returned

vars == <<heap, nextId, tmpDirs, store, registry, cache, fetched, last>>

\* The project keys a load may ask for, and the one the saves are made under.
Namespaces == {"proj1", "proj2"}
SaveNamespaces == {"proj1"}

Ids == 1..MaxSaves

DataFile == "data.csv.zst"
MetaFile == "giskard-dataset-meta.yaml"

NoCall ==
    [op |-> "none", mode |-> "", ns |-> "", id |-> 0, arg |-> "",
     outcome |-> "", cause |-> "", ret |-> 0, calls |-> <<>>, reads |-> <<>>,
     writes |-> <<>>, idGen |-> FALSE, tmpMade |-> FALSE]

\* posixpath.join(project_key, "datasets", dataset_id)
RemotePath(project_key, dataset_id) == <<project_key, "datasets", dataset_id>>

\* settings.home_dir / settings.cache_dir / project_key / "datasets" / dataset_id
LocalDir(project_key, dataset_id) ==
    <<"home_dir", "cache_dir", project_key, "datasets", dataset_id>>

\* -------------------------------------------------------------------- save

\* Dataset._save_to_local_dir: the two files and the two sizes.
_save_to_local_dir(self) ==
    LET uncompressed_bytes == save_df(self.df)
        compressed_bytes == compress(uncompressed_bytes)
    IN  [data |-> compressed_bytes,
         yaml |-> yaml_dump(meta(self)),
         original_size_bytes |-> CsvLen(uncompressed_bytes),
         compressed_size_bytes |-> CompressedLen(compressed_bytes)]

\* A save that validates only once the artifacts are uploaded.
SavePipelineLateValidation ==
    <<"uuid", "mkdtemp", "write_data", "write_meta", "log_artifacts",
      "validate", "save_dataset_meta">>

\* Dataset.save, step by step.
SavePipeline ==
    <<"validate", "uuid", "mkdtemp", "write_data", "write_meta",
      "log_artifacts", "save_dataset_meta">>

\* The steps of save that call a collaborator, and the steps that may fail.
SaveCollaborators == {"validate", "log_artifacts", "save_dataset_meta"}

SaveFailPoints ==
    {"none", "validate", "write_data", "write_meta", "log_artifacts",
     "save_dataset_meta"}

SaveError(failAt) ==
    CASE failAt = "none" -> "ok"
      [] failAt = "validate" -> "ValidationError"
      [] failAt \in {"write_data", "write_meta"} -> "OSError"
      [] failAt = "log_artifacts" -> "UploadError"
      [] OTHER -> "RegistryError"

\* A staging directory removed only when the block ends without an error.
StagingAfterExitOnSuccess(dirs, d, completed) ==
    IF completed THEN dirs \ {d} ELSE dirs

\* with tempfile.TemporaryDirectory(...): the directory is removed however
\* the block ends.
StagingAfterExit(dirs, d, completed) == dirs \ {d}

Save(project_key, failAt) ==
    LET self == heap[1]
        Pos(step) == CHOOSE i \in 1..Len(SavePipeline) : SavePipeline[i] = step
        failPos == IF failAt = "none" THEN Len(SavePipeline) + 1 ELSE Pos(failAt)
        Ran(step) == Pos(step) < failPos
        Tried(step) == Pos(step) <= failPos
        IsCall(step) == step \in SaveCollaborators /\ Tried(step)
        IsWrite(step) == step \in {"write_data", "write_meta"} /\ Ran(step)
        dataset_id == nextId + 1
        files == _save_to_local_dir(self)
        staged == IF Ran("mkdtemp") THEN tmpDirs \cup {dataset_id} ELSE tmpDirs
    IN  /\ Ran("uuid") => nextId < MaxSaves
        /\ nextId' = IF Ran("uuid") THEN dataset_id ELSE nextId
        /\ tmpDirs' = IF Ran("mkdtemp")
                      THEN StagingAfterExit(staged, dataset_id, failAt = "none")
                      ELSE tmpDirs
        /\ store' = IF Ran("log_artifacts")
                    THEN store \cup {[path |-> RemotePath(project_key, dataset_id),
                                      data |-> files.data, yaml |-> files.yaml]}
                    ELSE store
        /\ registry' = IF Ran("save_dataset_meta")
                       THEN registry \cup
                              {[ns |-> project_key, id |-> dataset_id,
                                meta |-> meta(self),
                                original_size_bytes |-> files.original_size_bytes,
                                compressed_size_bytes |-> files.compressed_size_bytes]}
                       ELSE registry
        /\ heap' = <<self>>
        /\ last' = [NoCall EXCEPT
                      !.op = "save", !.ns = project_key,
                      !.id = IF Ran("uuid") THEN dataset_id ELSE 0,
                      !.outcome = SaveError(failAt),
                      !.ret = IF failAt = "none" THEN dataset_id ELSE 0,
                      !.calls = SelectSeq(SavePipeline, IsCall),
                      !.writes = SelectSeq(SavePipeline, IsWrite),
                      !.idGen = Ran("uuid"),
                      !.tmpMade = Ran("mkdtemp")]
        /\ UNCHANGED <<cache, fetched>>

\* -------------------------------------------------------------------- load

Stored(path) == {e \in store : e.path = path}

Registered(project_key, dataset_id) ==
    {r \in registry : r.ns = project_key /\ r.id = dataset_id}

Cached(dir) == {e \in cache : e.dir = dir}

\* A load that takes the cache directory for granted.
LocalDirExistsUnchecked(dir) == TRUE

\* local_dir.exists()
LocalDirExists(dir) == Cached(dir) # {}

\* The end of load: read the data file, cast, build the Dataset.
Loaded(r, m) ==
    IF r.ok
    THEN [ok |-> TRUE, outcome |-> "ok", cause |-> "",
          ds |-> <<DatasetFromMeta(r.df, m)>>]
    ELSE [ok |-> FALSE, outcome |-> r.error, cause |-> r.cause, ds |-> <<>>]

LoadTail(data, m) ==
    Loaded(cast_column_to_types(_read_dataset_from_local_dir(data), m.column_types), m)

\* What a load that got as far as the data file leaves: the Dataset or the
\* error, and the record of the call.
LoadReturns(call, t) ==
    /\ heap' = <<heap[1]>> \o t.ds
    /\ last' = [call EXCEPT !.outcome = t.outcome, !.cause = t.cause,
                            !.ret = IF t.ok THEN 2 ELSE 0]

\* Dataset.load with client None.
LoadLocal(project_key, dataset_id) ==
    LET local_dir == LocalDir(project_key, dataset_id)
        call == [NoCall EXCEPT !.op = "load", !.mode = "local",
                               !.ns = project_key, !.id = dataset_id]
    IN  /\ IF ~LocalDirExists(local_dir)
           THEN /\ heap' = <<heap[1]>>
                /\ last' = [call EXCEPT !.outcome = "AssertionError"]
           ELSE IF Cached(local_dir) = {}
           THEN /\ heap' = <<heap[1]>>
                /\ last' = [call EXCEPT !.outcome = "FileNotFoundError",
                                        !.reads = <<MetaFile>>]
           ELSE LET e == CHOOSE e \in Cached(local_dir) : TRUE
                IN  LoadReturns([call EXCEPT !.reads = <<MetaFile, DataFile>>],
                                LoadTail(e.data, yaml_load(e.yaml)))
        /\ UNCHANGED <<nextId, tmpDirs, store, registry, cache, fetched>>

LoadFailPoints == {"none", "load_artifact", "load_dataset_meta"}

\* Dataset.load with a client.
LoadRemote(project_key, dataset_id, failAt) ==
    LET local_dir == LocalDir(project_key, dataset_id)
        path == RemotePath(project_key, dataset_id)
        call == [NoCall EXCEPT !.op = "load", !.mode = "remote",
                               !.ns = project_key, !.id = dataset_id]
        downloaded == failAt # "load_artifact" /\ Stored(path) # {}
        got == failAt = "none" /\ Registered(project_key, dataset_id) # {}
    IN  IF ~downloaded
        THEN /\ heap' = <<heap[1]>>
             /\ last' = [call EXCEPT !.outcome = "DownloadError",
                                     !.calls = <<"load_artifact">>]
             /\ UNCHANGED <<nextId, tmpDirs, store, registry, cache, fetched>>
        ELSE LET a == CHOOSE a \in Stored(path) : TRUE
                 e == [dir |-> local_dir, data |-> a.data, yaml |-> a.yaml]
             IN  /\ cache' = (cache \ Cached(local_dir)) \cup {e}
                 /\ IF ~got
                    THEN /\ heap' = <<heap[1]>>
                         /\ last' = [call EXCEPT
                                       !.outcome = "RegistryError",
                                       !.calls = <<"load_artifact", "load_dataset_meta">>]
                         /\ fetched' = fetched
                    ELSE /\ LoadReturns(
                                [call EXCEPT
                                   !.calls = <<"load_artifact", "load_dataset_meta">>,
                                   !.reads = <<DataFile>>],
                                LoadTail(e.data,
                                         (CHOOSE r \in Registered(project_key, dataset_id) :
                                             TRUE).meta))
                         /\ fetched' =
                              IF Len(heap') = 2
                              THEN fetched \cup {[ns |-> project_key,
                                                  id |-> dataset_id,
                                                  ds |-> heap'[2]]}
                              ELSE fetched
                 /\ UNCHANGED <<nextId, tmpDirs, store, registry>>

\* ------------------------------------------------------------------- slice

\* The transforms handed to slice: none, every row but the first, the first
\* column only.
SliceFns == {"None", "tail", "first_column"}

Apply(slice_fn, df) ==
    IF slice_fn = "tail"
    THEN [i \in 1..Len(df) |->
            [df[i] EXCEPT !.cells = SubSeq(df[i].cells, 2, Len(df[i].cells))]]
    ELSE SubSeq(df, 1, 1)

\* A slice that transforms its own table and returns itself.
slice_in_place(self, slice_fn) ==
    IF slice_fn = "None"
    THEN [self |-> self, new |-> <<>>]
    ELSE [self |-> [self EXCEPT !.df = Apply(slice_fn, self.df)], new |-> <<>>]

\* Dataset.slice: self as the call leaves it, and the Dataset it makes.
slice(self, slice_fn) ==
    IF slice_fn = "None"
    THEN [self |-> self, new |-> <<>>]
    ELSE [self |-> self,
          new |-> <<Dataset(Apply(slice_fn, self.df), self.name, self.target,
                            self.feature_types, self.column_types)>>]

Slice(slice_fn) ==
    LET r == slice(heap[1], slice_fn)
    IN  /\ heap' = <<r.self>> \o r.new
        /\ last' = [NoCall EXCEPT !.op = "slice", !.arg = slice_fn,
                                  !.outcome = "ok",
                                  !.ret = IF Len(r.new) = 0 THEN 1 ELSE 2]
        /\ UNCHANGED <<nextId, tmpDirs, store, registry, cache, fetched>>

\* ------------------------------------------------- the codec, call by call

\* _save_to_local_dir then _read_dataset_from_local_dir on the data file: the
\* table as it is read back, before any cast.
ReadBack ==
    LET self == heap[1]
        df == _read_dataset_from_local_dir(_save_to_local_dir(self).data)
    IN  /\ heap' = <<self, DatasetFromMeta(df, meta(self))>>
        /\ last' = [NoCall EXCEPT !.op = "read", !.outcome = "ok", !.ret = 2,
                                  !.writes = <<"write_data", "write_meta">>,
                                  !.reads = <<DataFile>>]
        /\ UNCHANGED <<nextId, tmpDirs, store, registry, cache, fetched>>

\* Dataset.cast_column_to_types(self.df, self.column_types)
Cast ==
    /\ LoadReturns([NoCall EXCEPT !.op = "cast"],
                   Loaded(cast_column_to_types(heap[1].df, heap[1].column_types),
                          meta(heap[1])))
    /\ UNCHANGED <<nextId, tmpDirs, store, registry, cache, fetched>>

\* ------------------------------------------------------------------ inputs

NY == <<"N", "Y">>

IntCells == {IntCell(25)}
FloatCells == {FloatCell(25), NA}
ObjCells == {StrCell(NY), StrCell(<<>>), StrCell(GSK_NA), StrCell(<<"2", "5">>), NA}

\* The columns pandas can hold: int64 has no missing value, float64 has NaN,
\* object has str and None.
NumColumns(name, rows) ==
    {Col(name, "int64", cells) : cells \in [1..rows -> IntCells]}
    \cup {Col(name, "float64", cells) : cells \in [1..rows -> FloatCells]}

ObjColumns(name, rows) ==
    {Col(name, "object", cells) : cells \in [1..rows -> ObjCells]}

TablesOf(rows) ==
    {<<a>> : a \in NumColumns("age", rows)}
    \cup {<<c>> : c \in ObjColumns("city", rows)}
    \cup {<<a, c>> : a \in NumColumns("age", rows), c \in ObjColumns("city", rows)}

CodecTables == UNION {TablesOf(rows) : rows \in 1..MaxRows}

\* column_types: unset, empty, or a type for age, for city or for both (city
\* first: a dict keeps the order it was written in).
CodecTypes ==
    {NoDict}
    \cup {Dict(c \o a) :
            c \in {<<>>} \cup {<< <<"city", t>> >> : t \in {"int64", "object"}},
            a \in {<<>>} \cup {<< <<"age", t>> >> : t \in {"int64", "float64", "object"}}}

CodecInputs ==
    {Dataset(df, None, None, NoDict, column_types) :
        df \in CodecTables, column_types \in CodecTypes}

\* The tables of the save / load / slice machine: the age and city columns of
\* the spec's example scenario.
SysTables ==
    UNION {{<<Col("age", "float64", a), Col("city", "object", c)>> :
              a \in [1..rows -> {FloatCell(250), NA}],
              c \in [1..rows -> {StrCell(NY)}]} :
           rows \in 1..MaxSysRows}

SysMetas ==
    {DatasetMeta(None, None, NoDict, NoDict),
     DatasetMeta(Some("null"), Some("city"),
                 Dict(<< <<"city", "category">>, <<"age", "numeric">> >>),
                 Dict(<< <<"city", "object">>, <<"age", "int64">> >>)),
     DatasetMeta(Some("d"), None, Dict(<<>>), Dict(<< <<"age", "float64">> >>))}

SysInputs == {DatasetFromMeta(df, m) : df \in SysTables, m \in SysMetas}

\* ---------------------------------------------------------- specifications

\* A Dataset just constructed; nothing saved, nothing cached.
Init ==
    /\ heap \in {<<d>> : d \in SysInputs}
    /\ nextId = 0
    /\ tmpDirs = {}
    /\ store = {}
    /\ registry = {}
    /\ cache = {}
    /\ fetched = {}
    /\ last = NoCall

Next ==
    \/ \E project_key \in SaveNamespaces, failAt \in SaveFailPoints :
          Save(project_key, failAt)
    \/ \E project_key \in Namespaces, dataset_id \in Ids :
          LoadLocal(project_key, dataset_id)
    \/ \E project_key \in Namespaces, dataset_id \in Ids, failAt \in LoadFailPoints :
          LoadRemote(project_key, dataset_id, failAt)
    \/ \E slice_fn \in SliceFns : Slice(slice_fn)

Spec == Init /\ [][Next]_vars

\* A Dataset saved as proj1/datasets/1 and downloaded to this worker's cache;
\* then the codec's calls and the local-only load of it.
Downloaded(self, files) ==
    /\ heap = <<self>>
    /\ nextId = 1
    /\ tmpDirs = {}
    /\ store = {[path |-> RemotePath("proj1", 1),
                 data |-> files.data, yaml |-> files.yaml]}
    /\ registry = {[ns |-> "proj1", id |-> 1, meta |-> meta(self),
                    original_size_bytes |-> files.original_size_bytes,
                    compressed_size_bytes |-> files.compressed_size_bytes]}
    /\ cache = {[dir |-> LocalDir("proj1", 1),
                 data |-> files.data, yaml |-> files.yaml]}
    /\ fetched = {}
    /\ last = NoCall

CodecInit == \E d \in CodecInputs : Downloaded(d, _save_to_local_dir(d))

CodecNext ==
    \/ ReadBack
    \/ Cast
    \/ \E project_key \in Namespaces, dataset_id \in Ids :
          LoadLocal(project_key, dataset_id)

CodecSpec == CodecInit /\ [][CodecNext]_vars

\* ------------------------------------------------------------------ claims

Self == heap[1]

Returned == heap[2]

\* A number's value in tenths, whatever its type.
Tenths(c) == IF c.k = "int" THEN 10 * c.n ELSE c.n

\* Two cells hold the same value: both missing, the same number, or the same
\* string.
ValueEq(c, d) ==
    \/ IsNa(c) /\ IsNa(d)
    \/ c.k \in {"int", "float"} /\ d.k \in {"int", "float"} /\ Tenths(c) = Tenths(d)
    \/ c.k = "str" /\ d.k = "str" /\ c.s = d.s

TableEq(a, b) ==
    /\ ColNames(a) = ColNames(b)
    /\ NRows(a) = NRows(b)
    /\ \A i \in 1..Len(a) : \A j \in 1..Len(a[i].cells) :
          ValueEq(a[i].cells[j], b[i].cells[j])

Declared(column_types) ==
    IF column_types.some THEN Keys(column_types.items) ELSE {}

TypedAsDeclared(df, column_types) ==
    \A i \in 1..Len(df) :
        df[i].name \in Declared(column_types)
            => df[i].dtype = Get(column_types.items, df[i].name)

\* The load just made asked for a dataset that a save stored and registered,
\* and got as far as the data file.
LoadOfSaved ==
    /\ last.op = "load"
    /\ last.outcome \in {"ok", "ValueError"}
    /\ Registered(last.ns, last.id) # {}

\* C1: loading what a save of Dataset(T, column_types) stored yields a Dataset
\* whose table equals T: the same columns in the same order, the same number
\* of rows, the same values, each declared column of its declared type.
RoundTripIdentity ==
    LoadOfSaved =>
        /\ last.outcome = "ok"
        /\ Len(heap) = 2
        /\ TableEq(Returned.df, Self.df)
        /\ TypedAsDeclared(Returned.df, Self.column_types)

Cells(df) == {<<i, j>> : i \in 1..Len(df), j \in 1..NRows(df)}

\* C2, as claimed: a cell read back is missing exactly when it was missing in
\* the table saved, for every cell.
MissingValueFidelity ==
    last.op = "read" =>
        \A p \in Cells(Self.df) :
            IsNa(Returned.df[p[1]].cells[p[2]]) <=> IsNa(Self.df[p[1]].cells[p[2]])

\* C2, amended: a cell that does not hold the string "_GSK_NA_" is read back
\* missing exactly when it was missing; a missing cell is read back neither
\* as that string, nor as the empty string, nor as zero; an empty string is
\* not read back missing; a cell that holds the string "_GSK_NA_" is read back
\* missing.
MissingValueFidelityOffSentinel ==
    last.op = "read" =>
        \A p \in Cells(Self.df) :
            LET c == Self.df[p[1]].cells[p[2]]
                d == Returned.df[p[1]].cells[p[2]]
            IN  /\ c # StrCell(GSK_NA) => (IsNa(d) <=> IsNa(c))
                /\ IsNa(c) => d \notin {StrCell(GSK_NA), StrCell(<<>>),
                                        IntCell(0), FloatCell(0)}
                /\ c = StrCell(<<>>) => d = StrCell(<<>>)
                /\ c = StrCell(GSK_NA) => IsNa(d)

\* A table with a missing cell and an empty string has been read back.
MissingValueReadBack ==
    /\ last.op = "read"
    /\ \E p \in Cells(Self.df) : IsNa(Self.df[p[1]].cells[p[2]])
    /\ \E p \in Cells(Self.df) : Self.df[p[1]].cells[p[2]] = StrCell(<<>>)

\* C3: the Dataset a load returns for a dataset that a save stored and
\* registered has the name, target, feature_types and column_types of the
\* Dataset saved, in remote mode and in local-only mode.
MetadataFidelity ==
    (LoadOfSaved /\ last.outcome = "ok") => MetaEq(Returned, Self)

\* A local-only load has returned a Dataset whose name needs quoting in YAML
\* and whose dicts were not written in key order.
MetadataLoadedFromYaml ==
    /\ LoadOfSaved
    /\ last.outcome = "ok"
    /\ last.mode = "local"
    /\ Returned.name = Some("null")
    /\ Returned.column_types.some
    /\ Returned.column_types.items # Self.column_types.items

\* C4: a save whose validation fails generates no identifier, makes no
\* staging directory, writes no file, calls neither log_artifacts nor
\* save_dataset_meta and leaves the store and the registry as they were.
ValidationGatesSave ==
    [][(last'.op = "save" /\ last'.outcome = "ValidationError") =>
          /\ ~last'.idGen
          /\ ~last'.tmpMade
          /\ last'.writes = <<>>
          /\ last'.calls = <<"validate">>
          /\ last'.ret = 0
          /\ nextId' = nextId
          /\ tmpDirs' = tmpDirs
          /\ store' = store
          /\ registry' = registry
          /\ cache' = cache]_vars

\* A save has failed validation after an earlier save went through.
ValidationFailedAfterSave ==
    /\ last.op = "save"
    /\ last.outcome = "ValidationError"
    /\ store # {}

\* C5: after any save, however it ended, its staging directory is gone, and
\* no staging directory of any save is left.
StagingCleanup ==
    /\ last.op = "save" => last.id \notin tmpDirs
    /\ Cardinality(tmpDirs) = 0

\* A second save made its staging directory and failed at registration.
StagedSaveFailed ==
    /\ last.op = "save"
    /\ last.tmpMade
    /\ last.outcome = "RegistryError"
    /\ last.id = 2

\* C6: after any save either everything ran and the identifier was returned,
\* or the caller saw a failure; and no identifier has its artifacts stored
\* without its metadata registered, or the reverse.
SaveAllOrNothing ==
    /\ last.op = "save" =>
          \/ /\ last.outcome = "ok"
             /\ last.ret = last.id
             /\ Stored(RemotePath(last.ns, last.id)) # {}
             /\ Registered(last.ns, last.id) # {}
          \/ /\ last.outcome # "ok"
             /\ last.ret = 0
    /\ \A ns \in Namespaces, id \in Ids :
          Stored(RemotePath(ns, id)) # {} <=> Registered(ns, id) # {}

\* C7: a local-only load whose cache directory does not exist ends in the
\* assertion error, returns no Dataset, reads no file and calls no
\* collaborator.
LocalLoadWithoutCacheFails ==
    [][(/\ last'.op = "load"
        /\ last'.mode = "local"
        /\ Cached(LocalDir(last'.ns, last'.id)) = {}) =>
          /\ last'.outcome = "AssertionError"
          /\ last'.ret = 0
          /\ Len(heap') = 1
          /\ last'.reads = <<>>
          /\ last'.calls = <<>>
          /\ cache' = cache]_vars

\* A local-only load has failed for want of its directory while another
\* dataset's directory is in the cache.
LocalLoadMissedCache ==
    /\ last.op = "load"
    /\ last.mode = "local"
    /\ last.outcome = "AssertionError"
    /\ cache # {}

\* Some column that column_types names is not in the table or does not
\* convert to its declared type.
SomeColumnFails(df, column_types) ==
    \E key \in Declared(column_types) :
        \/ \A i \in 1..Len(df) : df[i].name # key
        \/ \E i \in 1..Len(df) :
              /\ df[i].name = key
              /\ ~AsTypeColumn(df[i], Get(column_types.items, key)).ok

\* The table a cast returned: the columns and rows of df, the columns that
\* column_types does not name as they were, the others of the declared type.
CastOf(out, df, column_types) ==
    /\ ColNames(out) = ColNames(df)
    /\ NRows(out) = NRows(df)
    /\ \A i \in 1..Len(df) :
          IF df[i].name \in Declared(column_types)
          THEN out[i].dtype = Get(column_types.items, df[i].name)
          ELSE out[i] = df[i]
    /\ Declared(column_types) = {} => out = df

\* C8: when a declared column does not convert, cast fails with one
\* ValueError that carries the conversion error and delivers no table, and
\* load raises it and returns no Dataset; when all convert, the columns not
\* declared, the column order and the row count are unchanged, and with
\* column_types empty or unset the table is returned as it is.
CoercionAllOrNothing ==
    /\ last.op = "cast" =>
          IF SomeColumnFails(Self.df, Self.column_types)
          THEN /\ last.outcome = "ValueError"
               /\ last.cause # ""
               /\ last.ret = 0
               /\ Len(heap) = 1
          ELSE /\ last.outcome = "ok"
               /\ Len(heap) = 2
               /\ CastOf(Returned.df, Self.df, Self.column_types)
    /\ (last.op = "load" /\ last.outcome # "AssertionError") =>
          IF SomeColumnFails(_read_dataset_from_local_dir(_save_to_local_dir(Self).data),
                             Self.column_types)
          THEN /\ last.outcome = "ValueError"
               /\ last.cause # ""
               /\ last.ret = 0
               /\ Len(heap) = 1
          ELSE /\ last.outcome = "ok"
               /\ Len(heap) = 2

\* A cast of two declared columns has failed on the second while the first
\* converts.
CastFailedOnOneColumn ==
    /\ last.op = "cast"
    /\ last.outcome = "ValueError"
    /\ Len(Self.df) = 2
    /\ Declared(Self.column_types) = {"age", "city"}
    /\ AsTypeColumn(Self.df[1], Get(Self.column_types.items, "age")).ok
    /\ ~AsTypeColumn(Self.df[2], Get(Self.column_types.items, "city")).ok

FetchedAs(project_key, dataset_id) ==
    {f \in fetched : f.ns = project_key /\ f.id = dataset_id}

\* C10: once a remote-mode load of (namespace, dataset_id) has returned a
\* Dataset, a local-only load of the same pair finds its directory and
\* returns a Dataset with the same table and the same metadata.
LocalLoadAfterRemoteLoad ==
    (/\ last.op = "load"
     /\ last.mode = "local"
     /\ FetchedAs(last.ns, last.id) # {}) =>
        /\ last.outcome = "ok"
        /\ Len(heap) = 2
        /\ \A f \in FetchedAs(last.ns, last.id) :
              /\ Returned.df = f.ds.df
              /\ MetaEq(Returned, f.ds)

\* A local-only load has returned the Dataset that a remote-mode load of the
\* same pair returned before, one whose name needs quoting in YAML.
LocalLoadedAfterRemote ==
    /\ last.op = "load"
    /\ last.mode = "local"
    /\ last.outcome = "ok"
    /\ FetchedAs(last.ns, last.id) # {}
    /\ Returned.name = Some("null")

====
